---- MODULE Spec2Model ----
(***************************************************************************)
(* Model of src/chunk_type.rs: the 4-byte chunk type identifier ChunkType, *)
(* its two constructors (TryFrom<[u8; 4]>, FromStr), Display, the derived  *)
(* equality, bytes() and the five case-derived predicates.                 *)
(*                                                                         *)
(* A text (&str) is a sequence of Unicode scalar values; a byte array is a *)
(* sequence of numbers in 0..255.  Rust arrays are 0-based, sequences here *)
(* are 1-based: value[k] of the source is value[k + 1] of the model.       *)
(***************************************************************************)
EXTENDS Integers, Sequences, FiniteSets, TLC

\* Longest input text handed to from_str (in characters).
MaxLen == 5

\* Characters the input texts are made of: 'R' 'u' 'S' 's' 't', the digit
\* '1' and the two-byte character U+00E9.
Chars == {82, 117, 83, 115, 116, 49, 233}

\* Octets the raw arrays are made of: the neighbours of the two letter
\* ranges ('1' '@' 'A' 'Z' '[' '`' 'a' 'z' '{'), a UTF-8 continuation byte
\* (0xA9) and a UTF-8 two-byte lead (0xC3).
ByteSamples == {49, 64, 65, 90, 91, 96, 97, 122, 123, 169, 195}

\* Octets written over one position of an identifier to build the right-hand
\* side of a comparison.
EqBytes == {90, 97}

Texts == UNION {[1..n -> Chars] : n \in 0..MaxLen}

Arrays == [1..4 -> ByteSamples]

-----------------------------------------------------------------------------
(* Library functions the source calls.                                     *)

\* u8::is_ascii_uppercase / char::is_ascii_uppercase: 'A'..='Z'.
is_ascii_uppercase(c) == c >= 65 /\ c <= 90

\* char::is_ascii_lowercase: 'a'..='z'.
is_ascii_lowercase(c) == c >= 97 /\ c <= 122

\* u8::is_ascii_alphabetic / char::is_ascii_alphabetic.
is_ascii_alphabetic(c) == is_ascii_uppercase(c) \/ is_ascii_lowercase(c)

\* UTF-8 encoding of one scalar value (the bytes &str stores for it).
encode_utf8(c) ==
  IF c < 128 THEN <<c>>
  ELSE IF c < 2048 THEN <<192 + (c \div 64), 128 + (c % 64)>>
  ELSE IF c < 65536 THEN
    <<224 + (c \div 4096), 128 + ((c \div 64) % 64), 128 + (c % 64)>>
  ELSE <<240 + (c \div 262144), 128 + ((c \div 4096) % 64),
         128 + ((c \div 64) % 64), 128 + (c % 64)>>

\* str::as_bytes: the UTF-8 bytes of the whole text.
RECURSIVE as_bytes(_)
as_bytes(s) ==
  IF s = <<>> THEN <<>> ELSE encode_utf8(Head(s)) \o as_bytes(Tail(s))

\* U+FFFD, the character lossy decoding substitutes.
REPLACEMENT_CHARACTER == 65533

\* String::from_utf8_lossy from position i on: every maximal invalid part
\* becomes one U+FFFD.
RECURSIVE lossy_from(_, _)
lossy_from(b, i) ==
  IF i > Len(b) THEN <<>>
  ELSE
    LET c == b[i]
        get(k) == IF k <= Len(b) THEN b[k] ELSE 0
        cont(k) == get(k) >= 128 /\ get(k) <= 191
        bad(n) == <<REPLACEMENT_CHARACTER>> \o lossy_from(b, i + n)
        second3 == \/ c = 224 /\ get(i + 1) \in 160..191
                   \/ c \in 225..236 /\ get(i + 1) \in 128..191
                   \/ c = 237 /\ get(i + 1) \in 128..159
                   \/ c \in 238..239 /\ get(i + 1) \in 128..191
        second4 == \/ c = 240 /\ get(i + 1) \in 144..191
                   \/ c \in 241..243 /\ get(i + 1) \in 128..191
                   \/ c = 244 /\ get(i + 1) \in 128..143
    IN
      IF c < 128 THEN <<c>> \o lossy_from(b, i + 1)
      ELSE IF c \in 194..223 THEN
        IF cont(i + 1)
        THEN <<(c - 192) * 64 + (get(i + 1) - 128)>> \o lossy_from(b, i + 2)
        ELSE bad(1)
      ELSE IF c \in 224..239 THEN
        IF ~second3 THEN bad(1)
        ELSE IF ~cont(i + 2) THEN bad(2)
        ELSE <<(c - 224) * 4096 + (get(i + 1) - 128) * 64 + (get(i + 2) - 128)>>
             \o lossy_from(b, i + 3)
      ELSE IF c \in 240..244 THEN
        IF ~second4 THEN bad(1)
        ELSE IF ~cont(i + 2) THEN bad(2)
        ELSE IF ~cont(i + 3) THEN bad(3)
        ELSE <<(c - 240) * 262144 + (get(i + 1) - 128) * 4096
               + (get(i + 2) - 128) * 64 + (get(i + 3) - 128)>>
             \o lossy_from(b, i + 4)
      ELSE bad(1)

from_utf8_lossy(b) == lossy_from(b, 1)

-----------------------------------------------------------------------------
(* ChunkType and the results of its constructors.                          *)

\* struct ChunkType { value: [u8; 4] }
ChunkType(v) == [value |-> v]

\* What a constructor call ends in: Ok(ChunkType), Err(io::Error of kind
\* InvalidInput), or a panic that unwinds out of the call.
Ok(ct) == [tag |-> "Ok", ct |-> ct, kind |-> "", msg |-> ""]

Err(kind, msg) == [tag |-> "Err", ct |-> ChunkType(<<>>), kind |-> kind, msg |-> msg]

Panic(msg) == [tag |-> "Panic", ct |-> ChunkType(<<>>), kind |-> "", msg |-> msg]

NotCalled == [tag |-> "None", ct |-> ChunkType(<<>>), kind |-> "", msg |-> ""]

\* try_from as it would be with the letter check of from_str copied into it.
try_from_checked(value) ==
  IF ~(\A i \in 1..4 : is_ascii_alphabetic(value[i]))
  THEN Err("InvalidInput", "only ascii alphabets")
  ELSE Ok(ChunkType(value))

\* impl TryFrom<[u8; 4]> for ChunkType
try_from(value) == Ok(ChunkType(value))

\* from_str as it would be with any() written for all().
from_str_any(s) ==
  IF ~(\E i \in 1..Len(s) : is_ascii_alphabetic(s[i]))
  THEN Err("InvalidInput", "only ascii alphabets")
  ELSE
    LET b == as_bytes(s) IN
      IF Len(b) < 4
      THEN Panic("range end index 4 out of range for slice")
      ELSE Ok(ChunkType(SubSeq(b, 1, 4)))

\* from_str as it would be copying 3 bytes, the last left at its initial 0.
from_str_three(s) ==
  IF ~(\A i \in 1..Len(s) : is_ascii_alphabetic(s[i]))
  THEN Err("InvalidInput", "only ascii alphabets")
  ELSE
    LET b == as_bytes(s) IN
      IF Len(b) < 3
      THEN Panic("range end index 3 out of range for slice")
      ELSE Ok(ChunkType(SubSeq(b, 1, 3) \o <<0>>))

\* impl FromStr for ChunkType
from_str(s) ==
  IF ~(\A i \in 1..Len(s) : is_ascii_alphabetic(s[i]))
  THEN Err("InvalidInput", "only ascii alphabets")
  ELSE
    LET b == as_bytes(s) IN
      IF Len(b) < 4
      THEN Panic("range end index 4 out of range for slice")
      ELSE Ok(ChunkType(SubSeq(b, 1, 4)))

\* Display as it would be rendering value[..3].
to_string_three(self) == from_utf8_lossy(SubSeq(self.value, 1, 3))

\* impl Display for ChunkType (to_string goes through fmt)
to_string(self) == from_utf8_lossy(self.value)

\* A hand-written eq that stops one element short.
eq_three(self, other) == \A i \in 1..3 : self.value[i] = other.value[i]

\* #[derive(PartialEq, Eq)]: field by field, the array element by element.
eq(self, other) == \A i \in 1..4 : self.value[i] = other.value[i]

bytes(self) == self.value

\* is_valid as the comment in its body has it: the reserved bit alone.
is_valid_reserved_only(self) == is_ascii_uppercase(self.value[3])

\* is_valid as it would be without its first conjunct.
is_valid_letters_only(self) ==
  \A i \in 1..4 : is_ascii_alphabetic(self.value[i])

is_valid(self) ==
  /\ is_ascii_uppercase(self.value[3])
  /\ \A i \in 1..4 : is_ascii_alphabetic(self.value[i])

is_critical(self) == is_ascii_uppercase(self.value[1])

is_public(self) == is_ascii_uppercase(self.value[2])

is_reserved_bit_valid(self) == is_ascii_uppercase(self.value[3])

\* is_safe_to_copy as it would be testing for a lowercase letter.
is_safe_to_copy_lowercase(self) == is_ascii_lowercase(self.value[4])

is_safe_to_copy(self) == ~is_ascii_uppercase(self.value[4])

-----------------------------------------------------------------------------
(* A caller: one construction, then one call on the identifier it got.     *)

VARIABLES
  src,  \* the constructor call made: its kind and its argument
  res,  \* what that call ended in
  obs   \* the call made on the identifier, its argument and what it returned

vars == <<src, res, obs>>

NoObs == [op |-> "none", via |-> "", arg |-> NotCalled, ret |-> FALSE]

Init ==
  /\ src = [kind |-> "none", s |-> <<>>, value |-> <<>>]
  /\ res = NotCalled
  /\ obs = NoObs

CallTryFrom ==
  /\ res.tag = "None"
  /\ \E value \in Arrays :
       /\ src' = [kind |-> "bytes", s |-> <<>>, value |-> value]
       /\ res' = try_from(value)
  /\ UNCHANGED obs

CallFromStr ==
  /\ res.tag = "None"
  /\ \E s \in Texts :
       /\ src' = [kind |-> "str", s |-> s, value |-> <<>>]
       /\ res' = from_str(s)
  /\ UNCHANGED obs

\* The identifier is only there to call on after Ok.
Ready == res.tag = "Ok" /\ obs.op = "none"

Observe(op, ret) ==
  /\ Ready
  /\ obs' = [op |-> op, via |-> "", arg |-> NotCalled, ret |-> ret]
  /\ UNCHANGED <<src, res>>

CallBytes == Observe("bytes", bytes(res.ct))

CallToString == Observe("to_string", to_string(res.ct))

CallIsValid == Observe("is_valid", is_valid(res.ct))

CallIsCritical == Observe("is_critical", is_critical(res.ct))

CallIsPublic == Observe("is_public", is_public(res.ct))

CallIsReservedBitValid == Observe("is_reserved_bit_valid", is_reserved_bit_valid(res.ct))

CallIsSafeToCopy == Observe("is_safe_to_copy", is_safe_to_copy(res.ct))

\* The arrays that differ from v at one position at most.
Neighbours(v) ==
  {v} \cup {[v EXCEPT ![i] = b] : i \in 1..4, b \in EqBytes}

\* self == other, the right-hand side built from raw bytes.
CallEqBytes ==
  /\ Ready
  /\ \E w \in Neighbours(res.ct.value) :
       LET other == try_from(w) IN
         obs' = [op |-> "eq", via |-> "bytes", arg |-> other,
                 ret |-> eq(res.ct, other.ct)]
  /\ UNCHANGED <<src, res>>

\* self == other, the right-hand side built from text (w is ASCII, so its
\* characters are its bytes).
CallEqStr ==
  /\ Ready
  /\ \E w \in Neighbours(res.ct.value) :
       /\ \A i \in 1..4 : w[i] < 128
       /\ LET other == from_str(w) IN
            /\ other.tag = "Ok"
            /\ obs' = [op |-> "eq", via |-> "str", arg |-> other,
                       ret |-> eq(res.ct, other.ct)]
  /\ UNCHANGED <<src, res>>

Next ==
  \/ CallTryFrom
  \/ CallFromStr
  \/ CallBytes
  \/ CallToString
  \/ CallIsValid
  \/ CallIsCritical
  \/ CallIsPublic
  \/ CallIsReservedBitValid
  \/ CallIsSafeToCopy
  \/ CallEqBytes
  \/ CallEqStr

Spec == Init /\ [][Next]_vars

-----------------------------------------------------------------------------
(* The properties checked.                                                 *)

Upper == 65..90

Letter == (65..90) \cup (97..122)

AllLetters(s) == \A i \in 1..Len(s) : s[i] \in Letter

SwapCase(b) ==
  IF b \in 65..90 THEN b + 32 ELSE IF b \in 97..122 THEN b - 32 ELSE b

FromText == src.kind = "str"

FromBytes == src.kind = "bytes"

InvalidInputError ==
  res.tag = "Err" /\ res.kind = "InvalidInput" /\ res.ct.value = <<>>

\* C1: from_str fails with the invalid-input error on every text whose
\* length is not 4, all-letter texts included.
C1_LengthNot4Rejected ==
  (FromText /\ Len(src.s) # 4) => InvalidInputError

\* C2: from_str ends in Ok with a whole identifier or in Err with the
\* invalid-input error, and never in a panic.
C2_OkOrErrNeverPanic ==
  FromText =>
    \/ res.tag = "Ok" /\ Len(res.ct.value) = 4
    \/ InvalidInputError

\* C3: from_str fails with the invalid-input error, and yields no
\* identifier, on every text that holds a character that is not an ASCII
\* letter, whatever the text's length.
C3_NonLetterRejected ==
  (FromText /\ ~AllLetters(src.s)) => InvalidInputError

C3_Witness ==
  FromText /\ src.s = <<82, 117, 49, 116>> /\ InvalidInputError

\* C4: on a text of exactly 4 ASCII letters from_str succeeds, bytes() of
\* the identifier is the 4 ASCII values of the text in order, and the
\* identifier equals the one try_from builds from those 4 bytes.
C4_FourLettersBuilt ==
  (FromText /\ Len(src.s) = 4 /\ AllLetters(src.s)) =>
    /\ res.tag = "Ok"
    /\ res.ct.value = src.s
    /\ obs.op = "bytes" => obs.ret = src.s
    /\ (obs.op = "eq" /\ obs.via = "bytes" /\ obs.arg.ct.value = src.s)
         => obs.ret = TRUE

C4_Witness ==
  /\ FromText /\ src.s = <<82, 117, 83, 116>>
  /\ obs.op = "bytes" /\ obs.ret = <<82, 117, 83, 116>>

\* C5: try_from succeeds on every array of 4 octets, letters or not, and
\* bytes() of the identifier is the array it was given.
C5_RawBytesKept ==
  FromBytes =>
    /\ res.tag = "Ok"
    /\ res.ct.value = src.value
    /\ obs.op = "bytes" => obs.ret = src.value

C5_Witness ==
  /\ FromBytes /\ src.value = <<169, 49, 195, 64>>
  /\ obs.op = "bytes" /\ obs.ret = <<169, 49, 195, 64>>

\* C6: is_valid is true exactly when byte[2] is in 'A'..'Z' and all 4 bytes
\* are ASCII letters; changing the case of byte 0, 1 or 3 leaves it as it is.
C6_IsValidRule ==
  obs.op = "is_valid" =>
    LET v == res.ct.value IN
      /\ obs.ret = (v[3] \in Upper /\ \A i \in 1..4 : v[i] \in Letter)
      /\ \A i \in {1, 2, 4} :
           is_valid(ChunkType([v EXCEPT ![i] = SwapCase(v[i])])) = obs.ret

C6_Witness ==
  /\ FromText /\ src.s = <<82, 117, 83, 116>>
  /\ obs.op = "is_valid" /\ obs.ret = TRUE

\* C7: each flag predicate is a range check of one byte: is_critical of
\* byte[0], is_public of byte[1], is_reserved_bit_valid of byte[2], each
\* true iff the byte is in 'A'..'Z', and is_safe_to_copy true iff byte[3] is
\* not in 'A'..'Z'; no other byte changes the result.
C7_FlagsByOneByte ==
  LET v == res.ct.value
      Others(k, f(_)) ==
        \A i \in (1..4) \ {k} : \A b \in ByteSamples :
          f(ChunkType([v EXCEPT ![i] = b])) = obs.ret
  IN
    /\ obs.op = "is_critical" =>
         obs.ret = (v[1] \in Upper) /\ Others(1, is_critical)
    /\ obs.op = "is_public" =>
         obs.ret = (v[2] \in Upper) /\ Others(2, is_public)
    /\ obs.op = "is_reserved_bit_valid" =>
         obs.ret = (v[3] \in Upper) /\ Others(3, is_reserved_bit_valid)
    /\ obs.op = "is_safe_to_copy" =>
         obs.ret = (v[4] \notin Upper) /\ Others(4, is_safe_to_copy)

C7_Witness ==
  /\ FromBytes /\ src.value[4] = 49
  /\ obs.op = "is_safe_to_copy" /\ obs.ret = TRUE

\* C8: rendering the identifier from_str built from a text of exactly 4
\* ASCII letters gives that text back.
C8_RoundTrip ==
  (FromText /\ Len(src.s) = 4 /\ AllLetters(src.s) /\ obs.op = "to_string")
    => obs.ret = src.s

C8_Witness ==
  /\ FromText /\ src.s = <<82, 117, 83, 116>>
  /\ obs.op = "to_string" /\ obs.ret = <<82, 117, 83, 116>>

\* C9: a == b exactly when bytes(a) and bytes(b) agree at all 4 positions,
\* whichever constructor built each; equality is reflexive, symmetric and
\* transitive.
C9_EqualityByteWise ==
  obs.op = "eq" =>
    LET a == res.ct
        b == obs.arg.ct
    IN
      /\ obs.ret = (\A i \in 1..4 : bytes(a)[i] = bytes(b)[i])
      /\ eq(a, a) /\ eq(b, b)
      /\ eq(b, a) = obs.ret
      /\ \A w \in Neighbours(b.value) :
           (obs.ret /\ eq(b, ChunkType(w))) => eq(a, ChunkType(w))

C9_Witness ==
  /\ FromText /\ src.s = <<82, 117, 83, 116>>
  /\ obs.op = "eq" /\ obs.via = "bytes" /\ obs.ret = TRUE

\* C10: every identifier from_str returns has all 4 bytes in A-Z or a-z, so
\* its is_valid equals its is_reserved_bit_valid; and for every identifier
\* is_valid implies is_reserved_bit_valid.
C10_TextIdentifiersAreLetters ==
  /\ (FromText /\ res.tag = "Ok") =>
       /\ \A i \in 1..4 : res.ct.value[i] \in Letter
       /\ obs.op = "is_valid" => obs.ret = is_reserved_bit_valid(res.ct)
       /\ obs.op = "is_reserved_bit_valid" => obs.ret = is_valid(res.ct)
  /\ (obs.op = "is_valid" /\ obs.ret) => is_reserved_bit_valid(res.ct)

C10_Witness ==
  /\ FromText /\ src.s = <<82, 117, 115, 116>>
  /\ obs.op = "is_valid" /\ obs.ret = FALSE

====
